---- MODULE Spec2Model ----
(***************************************************************************)
(* A model of app.py: the /nearby_hospitals handler (coordinate            *)
(* resolution, the provider call, the per-candidate distance loop and the  *)
(* catch-all error response) and the /uploaded handler (save, load_model,  *)
(* load_img, predict, argmax, catalogue lookup, clear_session, render)     *)
(* run by concurrent request threads.                                      *)
(*                                                                         *)
(* Strings that the code parses are sequences of one-character strings, so *)
(* that float() is a real conversion.  Floats are fixed point: degrees in  *)
(* units of 1/Scale, kilometres in hundredths (the code rounds to 2        *)
(* places).                                                                *)
(***************************************************************************)
EXTENDS Integers, Sequences, FiniteSets, TLC

VARIABLES
    \* ---- /nearby_hospitals: one request ----
    hpc,        \* position of the handler
    args,       \* request.args: the query values lat and lng
    lat, lng,   \* the local variables lat, lng (query values, then resolved)
    results,    \* the decoded provider response
    idx,        \* position of the for loop in results
    hospitals,  \* the list being built
    hresp,      \* the JSON response of the handler
    distCalls,  \* log of the (lat1, lon1) passed to calculate_distance
    \* ---- /uploaded: one request per thread at a time ----
    cpc,        \* position of each request thread
    upload,     \* request.files['file'] of each thread: filename and bytes
    disk,       \* static/data/: filename -> bytes
    model,      \* each thread's local model handle
    img,        \* each thread's preprocessed image (named by its bytes)
    prediction, \* each thread's model.predict output
    pred_class, \* each thread's np.argmax result
    diag,       \* each thread's disease, accuracy and info
    rendered,   \* each thread's render_template arguments
    session,    \* the Keras backend session: number of clear_session calls
    loads,      \* number of load_model calls made in the process
    served,     \* number of classification requests accepted
    weights     \* the artifact modelnew.h5: image -> probability vector

hvars == <<hpc, args, lat, lng, results, idx, hospitals, hresp,
          distCalls>>
cvars == <<cpc, upload, disk, model, img, prediction, pred_class, diag,
           rendered, session, loads, served, weights>>
vars == <<hpc, args, lat, lng, results, idx, hospitals, hresp, distCalls,
          cpc, upload, disk, model, img, prediction, pred_class, diag,
          rendered, session, loads, served, weights>>

----------------------------------------------------------------------------
(* Bounds *)

\* longest provider candidate list explored
MaxResults == 2
\* classification requests accepted in one run
MaxRequests == 3
\* a probability vector has entries k/ProbUnits summing to 1
ProbUnits == 3

----------------------------------------------------------------------------
(* Strings and float() *)

\* fixed-point unit of a degree: 4 decimal places
Scale == 10000
FracDigits == 4

Digits == {"0", "1", "2", "3", "4", "5", "6", "7", "8", "9"}

DigitVal(c) ==
    CASE c = "0" -> 0 [] c = "1" -> 1 [] c = "2" -> 2 [] c = "3" -> 3
      [] c = "4" -> 4 [] c = "5" -> 5 [] c = "6" -> 6 [] c = "7" -> 7
      [] c = "8" -> 8 [] c = "9" -> 9

RECURSIVE LStrip(_)
LStrip(s) == IF s # <<>> /\ Head(s) = " " THEN LStrip(Tail(s)) ELSE s

RECURSIVE RStrip(_)
RStrip(s) ==
    IF s # <<>> /\ s[Len(s)] = " " THEN RStrip(SubSeq(s, 1, Len(s) - 1)) ELSE s

RECURSIVE IntOf(_)
IntOf(s) ==
    IF s = <<>> THEN 0
    ELSE IntOf(SubSeq(s, 1, Len(s) - 1)) * 10 + DigitVal(s[Len(s)])

IsDigits(s) == \A i \in 1..Len(s) : s[i] \in Digits

\* the fraction digits as a number of 1/Scale units (digits past the
\* fourth are below the model's resolution)
FracOf(s) ==
    LET padded == [i \in 1..FracDigits |-> IF i <= Len(s) THEN s[i] ELSE "0"]
    IN  IntOf(padded)

FloatError == [ok |-> FALSE, fin |-> FALSE, v |-> 0]
FloatInf == [ok |-> TRUE, fin |-> FALSE, v |-> 0]

\* float(str): surrounding whitespace is stripped, an optional sign, then
\* "inf" or decimal digits with an optional fraction; anything else raises
\* ValueError.  (Exponents, "nan" and "infinity" are not among the strings
\* the model draws.)
ParseFloat(str) ==
    LET s == RStrip(LStrip(str))
        signed == s # <<>> /\ Head(s) \in {"+", "-"}
        sign == IF s # <<>> /\ Head(s) = "-" THEN -1 ELSE 1
        body == IF signed THEN Tail(s) ELSE s
        dots == {i \in 1..Len(body) : body[i] = "."}
        dot == CHOOSE i \in dots : TRUE
        ip == IF dots = {} THEN body ELSE SubSeq(body, 1, dot - 1)
        fp == IF dots = {} THEN <<>> ELSE SubSeq(body, dot + 1, Len(body))
    IN  IF body = <<"i", "n", "f">> THEN FloatInf
        ELSE IF Cardinality(dots) > 1 THEN FloatError
        ELSE IF ~(IsDigits(ip) /\ IsDigits(fp)) THEN FloatError
        ELSE IF ip = <<>> /\ fp = <<>> THEN FloatError
        ELSE [ok |-> TRUE, fin |-> TRUE,
              v |-> sign * (IntOf(ip) * Scale + FracOf(fp))]

\* A value that reaches the code from outside: a query argument
\* (request.args.get: None or a string) or a JSON field of a candidate
\* (absent key, null or a string).
Absent == [k |-> "absent", s |-> <<>>]
Null == [k |-> "none", s |-> <<>>]
Str(s) == [k |-> "str", s |-> s]

\* float(x) for such a value: float(None) raises TypeError.
ToFloat(x) == IF x.k = "str" THEN ParseFloat(x.s) ELSE FloatError

\* Python truthiness of a query value: None and "" are falsy.
Falsy(x) == x.k # "str" \/ x.s = <<>>

----------------------------------------------------------------------------
(* calculate_distance *)

NoDistance == [null |-> TRUE, km100 |-> 0]

\* round(R * c, 2) in hundredths of a kilometre, R = 6371, at the
\* coordinates the model draws (fixed point, 1/Scale degrees): the values
\* the haversine formula of the code gives there.  No other coordinate has
\* a value.
Haversine(lat1, lon1, lat2, lon2) ==
    LET drawn == /\ {lat1, lat2} \subseteq {163067, 165000}
                 /\ {lon1, lon2} \subseteq {804365, 805000}
    IN  CASE drawn /\ lat1 = lat2 /\ lon1 = lon2 -> 0
          [] drawn /\ lat1 = lat2 /\ lon1 # lon2 /\ lat1 = 163067 -> 678
          [] drawn /\ lat1 = lat2 /\ lon1 # lon2 /\ lat1 = 165000 -> 677
          [] drawn /\ lat1 # lat2 /\ lon1 = lon2 -> 2149
          [] drawn /\ lat1 # lat2 /\ lon1 # lon2 -> 2254

\* Any exception inside the try (float() of a bad value, the math domain
\* error of sin/cos of an infinity) gives None.
calculate_distance(lat1, lon1, lat2, lon2) ==
    LET a == ToFloat(lat1)
        b == ToFloat(lon1)
        c == ToFloat(lat2)
        d == ToFloat(lon2)
    IN  IF ~(a.ok /\ b.ok /\ c.ok /\ d.ok) THEN NoDistance
        ELSE IF ~(a.fin /\ b.fin /\ c.fin /\ d.fin) THEN NoDistance
        ELSE [null |-> FALSE, km100 |-> Haversine(a.v, b.v, c.v, d.v)]

----------------------------------------------------------------------------
(* /nearby_hospitals: inputs *)

S_16_3067 == <<"1", "6", ".", "3", "0", "6", "7">>
S_80_4365 == <<"8", "0", ".", "4", "3", "6", "5">>
S_16_5 == <<"1", "6", ".", "5">>
S_16_50 == <<" ", "1", "6", ".", "5", "0">>
S_80_5 == <<"8", "0", ".", "5">>
S_abc == <<"a", "b", "c">>
S_inf == <<"i", "n", "f">>

DEFAULT_LAT == Str(S_16_3067)
DEFAULT_LNG == Str(S_80_4365)

\* the query values a client may send
QueryLats == {Null, Str(<<>>), Str(S_16_5), Str(S_16_50), Str(S_abc), Str(S_inf)}
QueryLngs == {Null, Str(S_80_5), Str(S_abc)}

\* the "address" field of a candidate: absent, an object with or without
\* "road", or (off contract) a string
NoAddress == [k |-> "absent", road |-> Absent]
AddressOf(road) == [k |-> "dict", road |-> road]
AddressString == [k |-> "str", road |-> Absent]

Candidate(la, lo, name, addr) ==
    [isdict |-> TRUE, lat |-> la, lon |-> lo, display_name |-> name,
     address |-> addr]

\* an element of the response that is not an object (a string, a number)
NotAnObject ==
    [isdict |-> FALSE, lat |-> Absent, lon |-> Absent, display_name |-> Absent,
     address |-> NoAddress]

\* the candidate records the provider may send
Candidates ==
    { Candidate(Str(S_16_5), Str(S_80_5), Str(<<"A">>), AddressOf(Str(<<"r">>))),
      Candidate(Str(S_16_3067), Str(S_80_4365), Absent, NoAddress),
      Candidate(Str(S_abc), Str(S_80_5), Str(<<"B">>), AddressOf(Absent)),
      Candidate(Str(S_16_5), Null, Str(<<"C">>), NoAddress),
      Candidate(Absent, Str(S_80_5), Str(<<"D">>), NoAddress),
      Candidate(Str(S_16_5), Absent, Str(<<"E">>), NoAddress),
      Candidate(Str(S_inf), Str(S_80_5), Str(<<"F">>), NoAddress),
      Candidate(Str(S_16_5), Str(S_80_5), Str(<<"G">>), AddressString),
      NotAnObject }

RECURSIVE SeqsUpTo(_, _)
SeqsUpTo(S, n) ==
    IF n = 0 THEN {<<>>}
    ELSE LET shorter == SeqsUpTo(S, n - 1)
         IN  shorter \cup {Append(q, x) : q \in shorter, x \in S}

\* what .json() may decode: a list of elements, an object (iterating it
\* yields its keys, which are strings), or null
JsonList(items) == [k |-> "list", items |-> items]
JsonObject(keys) == [k |-> "dict", items |-> keys]
JsonNull == [k |-> "null", items |-> <<>>]
NoResults == [k |-> "unset", items |-> <<>>]

JsonValues ==
    {JsonList(q) : q \in SeqsUpTo(Candidates, MaxResults)}
        \cup {JsonObject(<<>>), JsonObject(<<NotAnObject>>), JsonNull}

\* the ways the provider call can end: an exception of requests.get, a body
\* that is not JSON, or a decoded value
Replies ==
    {[k |-> "network", json |-> NoResults], [k |-> "notjson", json |-> NoResults]}
        \cup {[k |-> "json", json |-> j] : j \in JsonValues}

----------------------------------------------------------------------------
(* /nearby_hospitals: the handler *)

NoResponse ==
    [status |-> "none", latitude_used |-> Null, longitude_used |-> Null,
     hospitals |-> <<>>, message |-> ""]

\* jsonify({"status": "error", "message": str(e)})
ErrorResponse(msg) ==
    [status |-> "error", latitude_used |-> Null, longitude_used |-> Null,
     hospitals |-> <<>>, message |-> msg]

\* jsonify({"status": "ok", ...})
OkResponse(la, ln, hs) ==
    [status |-> "ok", latitude_used |-> la, longitude_used |-> ln,
     hospitals |-> hs, message |-> ""]

HInit ==
    /\ hpc = "idle"
    /\ args = [lat |-> Null, lng |-> Null]
    /\ lat = Null
    /\ lng = Null
    /\ results = NoResults
    /\ idx = 1
    /\ hospitals = <<>>
    /\ hresp = NoResponse
    /\ distCalls = <<>>

\* a GET /nearby_hospitals arrives with its query string
HArrive(qlat, qlng) ==
    /\ hpc = "idle"
    /\ args' = [lat |-> qlat, lng |-> qlng]
    /\ hpc' = "resolve"
    /\ UNCHANGED <<lat, lng, results, idx, hospitals, hresp, distCalls>>
    /\ UNCHANGED cvars

\* mutant of Resolve: the defaults only when both values are missing
ResolveBothMissing(q) ==
    IF Falsy(q.lat) /\ Falsy(q.lng)
    THEN [lat |-> DEFAULT_LAT, lng |-> DEFAULT_LNG]
    ELSE [lat |-> q.lat, lng |-> q.lng]

\* lat, lng = args, or the defaults when either is None or empty
Resolve(q) ==
    IF Falsy(q.lat) \/ Falsy(q.lng)
    THEN [lat |-> DEFAULT_LAT, lng |-> DEFAULT_LNG]
    ELSE [lat |-> q.lat, lng |-> q.lng]

HResolve ==
    /\ hpc = "resolve"
    /\ lat' = Resolve(args).lat
    /\ lng' = Resolve(args).lng
    /\ hpc' = "sleep"
    /\ UNCHANGED <<args, results, idx, hospitals, hresp, distCalls>>
    /\ UNCHANGED cvars

\* time.sleep(1)
HSleep ==
    /\ hpc = "sleep"
    /\ hpc' = "get"
    /\ UNCHANGED <<args, lat, lng, results, idx, hospitals, hresp, distCalls>>
    /\ UNCHANGED cvars

\* requests.get(url, headers=headers) is sent; no timeout is passed, so the
\* call returns only when the provider answers or the connection fails
HGet ==
    /\ hpc = "get"
    /\ hpc' = "waiting"
    /\ UNCHANGED <<args, lat, lng, results, idx, hospitals, hresp, distCalls>>
    /\ UNCHANGED cvars

\* the provider call ends; .json() decodes the body
HReply(reply) ==
    /\ hpc = "waiting"
    /\ IF reply.k = "network"
       THEN /\ hresp' = ErrorResponse("ConnectionError")
            /\ hpc' = "done"
            /\ UNCHANGED <<results, hospitals, idx>>
       ELSE IF reply.k = "notjson"
       THEN /\ hresp' = ErrorResponse("JSONDecodeError")
            /\ hpc' = "done"
            /\ UNCHANGED <<results, hospitals, idx>>
       ELSE /\ results' = reply.json
            /\ hospitals' = <<>>
            /\ idx' = 1
            /\ hpc' = "loop"
            /\ UNCHANGED hresp
    /\ UNCHANGED <<args, lat, lng, distCalls>>
    /\ UNCHANGED cvars

\* for r in results: a value that cannot be iterated raises TypeError
HIterFail ==
    /\ hpc = "loop"
    /\ results.k \notin {"list", "dict"}
    /\ hresp' = ErrorResponse("TypeError")
    /\ hpc' = "done"
    /\ UNCHANGED <<args, lat, lng, results, idx, hospitals, distCalls>>
    /\ UNCHANGED cvars

\* mutant of SubscriptException: the coordinates read with r.get
SubscriptTolerant(r) == IF ~r.isdict THEN "TypeError" ELSE ""

\* the exception raised by r["lat"], r["lon"] in the call of line 253
SubscriptException(r) ==
    IF ~r.isdict THEN "TypeError"
    ELSE IF r.lat.k = "absent" THEN "'lat'"
    ELSE IF r.lon.k = "absent" THEN "'lon'"
    ELSE ""

\* the exception raised while the entry is built
EntryException(r) == IF r.address.k = "str" THEN "AttributeError" ELSE ""

S_Unknown == <<"U", "n", "k", "n", "o", "w", "n", " ", "H", "o", "s", "p", "i", "t", "a", "l">>
S_NotProvided == <<"N", "o", "t", " ", "P", "r", "o", "v", "i", "d", "e", "d">>

GetOr(x, default) == IF x.k = "absent" THEN Str(default) ELSE x

HospitalEntry(r, dist) ==
    [name |-> GetOr(r.display_name, S_Unknown),
     address |-> GetOr(r.address.road, S_NotProvided),
     lat |-> r.lat,
     lng |-> r.lon,
     distance |-> dist]

\* mutant of AppendEntry: candidates without a distance are dropped
AppendIfDistance(hs, e) == IF e.distance.null THEN hs ELSE Append(hs, e)

\* hospitals.append({...})
AppendEntry(hs, e) == Append(hs, e)

\* one turn of the loop body
HBody ==
    /\ hpc = "loop"
    /\ results.k \in {"list", "dict"}
    /\ idx <= Len(results.items)
    /\ LET r == results.items[idx]
       IN  IF SubscriptException(r) # ""
           THEN /\ hresp' = ErrorResponse(SubscriptException(r))
                /\ hpc' = "done"
                /\ UNCHANGED <<idx, hospitals, distCalls>>
           ELSE /\ distCalls' = Append(distCalls, <<lat, lng>>)
                /\ IF EntryException(r) # ""
                   THEN /\ hresp' = ErrorResponse(EntryException(r))
                        /\ hpc' = "done"
                        /\ UNCHANGED <<idx, hospitals>>
                   ELSE /\ hospitals' =
                               AppendEntry(hospitals,
                                   HospitalEntry(r,
                                       calculate_distance(lat, lng, r.lat, r.lon)))
                        /\ idx' = idx + 1
                        /\ UNCHANGED <<hresp, hpc>>
    /\ UNCHANGED <<args, lat, lng, results>>
    /\ UNCHANGED cvars

\* the loop is over: return jsonify({"status": "ok", ...})
HReturn ==
    /\ hpc = "loop"
    /\ results.k \in {"list", "dict"}
    /\ idx > Len(results.items)
    /\ hresp' = OkResponse(lat, lng, hospitals)
    /\ hpc' = "done"
    /\ UNCHANGED <<args, lat, lng, results, idx, hospitals, distCalls>>
    /\ UNCHANGED cvars

HStep ==
    \/ HResolve
    \/ HSleep
    \/ HGet
    \/ HIterFail
    \/ HBody
    \/ HReturn

HNext ==
    \/ \E qlat \in QueryLats, qlng \in QueryLngs : HArrive(qlat, qlng)
    \/ HStep
    \/ \E reply \in Replies : HReply(reply)

----------------------------------------------------------------------------
(* /uploaded: the catalogues *)

NumClasses == 7
Classes == 0..(NumClasses - 1)

\* SKIN_CLASSES (the apostrophe of label 0 is written in ASCII)
SKIN_CLASSES ==
    LET labels == <<"Actinic Keratoses (Solar Keratoses) / Bowen's disease",
                    "Basal Cell Carcinoma",
                    "Benign Keratosis",
                    "Dermatofibroma",
                    "Melanoma",
                    "Melanocytic Nevi",
                    "Vascular skin lesion">>
    IN  [c \in Classes |-> labels[c + 1]]

\* DISEASE_INFO
DISEASE_INFO ==
    LET records ==
        << [severity |-> "Moderate to High",
          precautions |->
            <<"Use sunscreen SPF 30+ daily.",
              "Avoid direct sunlight.",
              "Regularly monitor for changes.">>,
          food_precautions |->
            <<"Eat fresh fruits and vegetables.",
              "Drink enough water.",
              "Avoid junk and oily food.",
              "Reduce sugar intake.",
              "Avoid alcohol and smoking.">>,
          consultation |-> "Dermatologist consultation strongly recommended."],
           [severity |-> "High",
          precautions |->
            <<"Avoid UV exposure.",
              "Do not scratch the lesion.",
              "Track lesion growth with photos.">>,
          food_precautions |->
            <<"Eat healthy home-cooked food.",
              "Include fruits and vegetables daily.",
              "Drink enough water.",
              "Avoid alcohol completely.",
              "Avoid processed and junk food.">>,
          consultation |-> "Immediate dermatologist visit recommended."],
           [severity |-> "Low to Moderate",
          precautions |->
            <<"Avoid skin irritation.",
              "Moisturize dry skin.",
              "Monitor for color or size changes.">>,
          food_precautions |->
            <<"Maintain a balanced diet.",
              "Drink enough water.",
              "Reduce oily and spicy food.",
              "Avoid excess sugar.",
              "Prefer home food.">>,
          consultation |-> "Routine dermatology checkup advised."],
           [severity |-> "Low",
          precautions |->
            <<"Avoid trauma to the lesion.",
              "Keep skin clean.",
              "Watch for sudden size or texture changes.">>,
          food_precautions |->
            <<"Eat nutritious food.",
              "Include proteins like pulses or eggs.",
              "Drink enough water.",
              "Avoid junk food.",
              "Avoid excessive caffeine.">>,
          consultation |-> "Non-urgent dermatology visit recommended."],
           [severity |-> "Very High (dangerous)",
          precautions |->
            <<"Avoid sun completely.",
              "Do not delay medical checkup.",
              "Monitor ABCDE(Asymmetry, Border irregularity, Color variation, Diameter(>6 mm), Evolving) signs.">>,
          food_precautions |->
            <<"Eat antioxidant-rich fruits and vegetables.",
              "Drink plenty of water.",
              "Avoid alcohol and smoking.",
              "Avoid processed food.",
              "Maintain a healthy diet to support treatment.">>,
          consultation |-> "Urgent dermatologist or oncologist appointment needed."],
           [severity |-> "Low (but monitor)",
          precautions |->
            <<"Monitor mole changes.",
              "Use sunscreen daily.",
              "Avoid self-removal.">>,
          food_precautions |->
            <<"Eat fresh fruits and vegetables.",
              "Drink enough water.",
              "Avoid junk food.",
              "Reduce sugar intake.",
              "Maintain a healthy lifestyle.">>,
          consultation |-> "Consult dermatologist if changes appear."],
           [severity |-> "Low to Moderate",
          precautions |->
            <<"Avoid scratching.",
              "Keep the area clean.",
              "Watch for sudden swelling or bleeding.">>,
          food_precautions |->
            <<"Drink enough water.",
              "Eat balanced meals.",
              "Reduce salty food.",
              "Avoid alcohol.",
              "Avoid junk food.">>,
          consultation |-> "Dermatology consultation recommended."] >>
    IN  [c \in Classes |-> records[c + 1]]

----------------------------------------------------------------------------
(* /uploaded: inputs *)

Threads == {1, 2}
Filenames == {"a.jpg", "b.jpg"}
Bytes == {"lesion1", "lesion2"}
NoFile == "nofile"

RECURSIVE SumFrom(_, _)
SumFrom(p, i) == IF i >= NumClasses THEN 0 ELSE p[i] + SumFrom(p, i + 1)

\* the probability vectors of length 7 with entries in units of
\* 1/ProbUnits: non-negative, summing to 1
Vectors == {p \in [Classes -> 0..ProbUnits] : SumFrom(p, 0) = ProbUnits}

NoVector == [c \in Classes |-> 0]

OneHot(c) == [d \in Classes |-> IF d = c THEN ProbUnits ELSE 0]

----------------------------------------------------------------------------
(* /uploaded: the handler *)

NoUpload == [filename |-> "", bytes |-> NoFile]
NoModel == [loaded |-> FALSE, session |-> 0]
NoDiag == [disease |-> "", accuracy |-> 0, info |-> DISEASE_INFO[0]]
NoPage ==
    [status |-> "none", img_file |-> "", predictions |-> "", acc |-> 0,
     severity_level |-> "", precautions |-> <<>>, food_precautions |-> <<>>,
     consultation |-> ""]

CInit ==
    /\ cpc = [t \in Threads |-> "idle"]
    /\ upload = [t \in Threads |-> NoUpload]
    /\ disk = [f \in Filenames |-> NoFile]
    /\ model = [t \in Threads |-> NoModel]
    /\ img = [t \in Threads |-> NoFile]
    /\ prediction = [t \in Threads |-> NoVector]
    /\ pred_class = [t \in Threads |-> 0]
    /\ diag = [t \in Threads |-> NoDiag]
    /\ rendered = [t \in Threads |-> NoPage]
    /\ session = 0
    /\ loads = 0
    /\ served = 0

\* a POST /uploaded arrives: f = request.files['file']
CArrive(t, name, bytes) ==
    /\ cpc[t] = "idle"
    /\ served < MaxRequests
    /\ served' = served + 1
    /\ upload' = [upload EXCEPT ![t] = [filename |-> name, bytes |-> bytes]]
    /\ cpc' = [cpc EXCEPT ![t] = "save"]
    /\ UNCHANGED <<disk, model, img, prediction, pred_class, diag, rendered,
                   session, loads, weights>>
    /\ UNCHANGED hvars

\* path = 'static/data/' + f.filename
Path(t) == upload[t].filename

\* f.save(path)
CSave(t) ==
    /\ cpc[t] = "save"
    /\ disk' = [disk EXCEPT ![Path(t)] = upload[t].bytes]
    /\ cpc' = [cpc EXCEPT ![t] = "load"]
    /\ UNCHANGED <<upload, model, img, prediction, pred_class, diag, rendered,
                   session, loads, served, weights>>
    /\ UNCHANGED hvars

\* model = load_model("modelnew.h5", compile=False): built in the current
\* backend session
CLoad(t) ==
    /\ cpc[t] = "load"
    /\ model' = [model EXCEPT ![t] = [loaded |-> TRUE, session |-> session]]
    /\ loads' = loads + 1
    /\ cpc' = [cpc EXCEPT ![t] = "read"]
    /\ UNCHANGED <<upload, disk, img, prediction, pred_class, diag, rendered,
                   session, served, weights>>
    /\ UNCHANGED hvars

\* img = image.load_img(path, ...); the tensor is named by the bytes read
CRead(t) ==
    /\ cpc[t] = "read"
    /\ img' = [img EXCEPT ![t] = disk[Path(t)]]
    /\ cpc' = [cpc EXCEPT ![t] = "predict"]
    /\ UNCHANGED <<upload, disk, model, prediction, pred_class, diag, rendered,
                   session, loads, served, weights>>
    /\ UNCHANGED hvars

\* prediction = model.predict(img)
CPredict(t) ==
    /\ cpc[t] = "predict"
    /\ prediction' = [prediction EXCEPT ![t] = weights[img[t]]]
    /\ cpc' = [cpc EXCEPT ![t] = "select"]
    /\ UNCHANGED <<upload, disk, model, img, pred_class, diag, rendered,
                   session, loads, served, weights>>
    /\ UNCHANGED hvars

\* model.predict on a model whose backend session another request has
\* cleared: depending on the backend the call may also raise, and the
\* request ends in a server error
CPredictFault(t) ==
    /\ cpc[t] = "predict"
    /\ model[t].session # session
    /\ rendered' = [rendered EXCEPT ![t] = [NoPage EXCEPT !.status = "fault"]]
    /\ cpc' = [cpc EXCEPT ![t] = "done"]
    /\ UNCHANGED <<upload, disk, model, img, prediction, pred_class, diag,
                   session, loads, served, weights>>
    /\ UNCHANGED hvars

\* mutant of Argmax: the last index holding the maximum
RECURSIVE ArgmaxLastFrom(_, _, _)
ArgmaxLastFrom(p, i, best) ==
    IF i >= NumClasses THEN best
    ELSE IF p[i] >= p[best] THEN ArgmaxLastFrom(p, i + 1, i)
    ELSE ArgmaxLastFrom(p, i + 1, best)

ArgmaxLast(p) == ArgmaxLastFrom(p, 1, 0)

RECURSIVE ArgmaxFrom(_, _, _)
ArgmaxFrom(p, i, best) ==
    IF i >= NumClasses THEN best
    ELSE IF p[i] > p[best] THEN ArgmaxFrom(p, i + 1, i)
    ELSE ArgmaxFrom(p, i + 1, best)

\* np.argmax: the first index holding the maximum
Argmax(p) == ArgmaxFrom(p, 1, 0)

\* round(n / d) to the nearest integer, halves to even, as Python's round
RoundDiv(n, d) ==
    LET q == n \div d
        r == n % d
    IN  IF 2 * r < d THEN q
        ELSE IF 2 * r > d THEN q + 1
        ELSE IF q % 2 = 0 THEN q ELSE q + 1

\* pred_class, disease, accuracy (percent, in units of 1/ProbUnits), info
CSelect(t) ==
    /\ cpc[t] = "select"
    /\ LET c == Argmax(prediction[t])
       IN  /\ pred_class' = [pred_class EXCEPT ![t] = c]
           /\ diag' = [diag EXCEPT ![t] =
                          [disease |-> SKIN_CLASSES[c],
                           accuracy |-> prediction[t][c] * 100,
                           info |-> DISEASE_INFO[c]]]
    /\ cpc' = [cpc EXCEPT ![t] = "clear"]
    /\ UNCHANGED <<upload, disk, model, img, prediction, rendered,
                   session, loads, served, weights>>
    /\ UNCHANGED hvars

\* K.clear_session(): the process-wide backend state is reset
CClear(t) ==
    /\ cpc[t] = "clear"
    /\ session' = session + 1
    /\ cpc' = [cpc EXCEPT ![t] = "render"]
    /\ UNCHANGED <<upload, disk, model, img, prediction, pred_class, diag,
                   rendered, loads, served, weights>>
    /\ UNCHANGED hvars

\* render_template('uploaded.html', ...); acc in hundredths of a percent
CRender(t) ==
    /\ cpc[t] = "render"
    /\ rendered' = [rendered EXCEPT ![t] =
           [status |-> "ok",
            img_file |-> upload[t].filename,
            predictions |-> diag[t].disease,
            acc |-> RoundDiv(diag[t].accuracy * 100, ProbUnits),
            severity_level |-> diag[t].info.severity,
            precautions |-> diag[t].info.precautions,
            food_precautions |-> diag[t].info.food_precautions,
            consultation |-> diag[t].info.consultation]]
    /\ cpc' = [cpc EXCEPT ![t] = "done"]
    /\ UNCHANGED <<upload, disk, model, img, prediction, pred_class, diag,
                   session, loads, served, weights>>
    /\ UNCHANGED hvars

\* the response is sent; the thread and its locals are free again
CFinish(t) ==
    /\ cpc[t] = "done"
    /\ cpc' = [cpc EXCEPT ![t] = "idle"]
    /\ upload' = [upload EXCEPT ![t] = NoUpload]
    /\ model' = [model EXCEPT ![t] = NoModel]
    /\ img' = [img EXCEPT ![t] = NoFile]
    /\ prediction' = [prediction EXCEPT ![t] = NoVector]
    /\ pred_class' = [pred_class EXCEPT ![t] = 0]
    /\ diag' = [diag EXCEPT ![t] = NoDiag]
    /\ rendered' = [rendered EXCEPT ![t] = NoPage]
    /\ UNCHANGED <<disk, session, loads, served, weights>>
    /\ UNCHANGED hvars

CStep(t) ==
    \/ CSave(t)
    \/ CLoad(t)
    \/ CRead(t)
    \/ CPredict(t)
    \/ CSelect(t)
    \/ CClear(t)
    \/ CRender(t)
    \/ CFinish(t)

----------------------------------------------------------------------------
(* Specifications *)

\* one hospital lookup, from the request to its response
Init == HInit /\ CInit /\ weights = [b \in Bytes \cup {NoFile} |-> NoVector]

Next == HNext

Spec == Init /\ [][Next]_vars

\* the handler runs whenever it can; nothing obliges the provider to answer
FairSpec == Spec /\ WF_vars(HStep)

\* concurrent classification requests on the threads of the server, with a
\* fixed artifact
FixedWeights ==
    [b \in Bytes \cup {NoFile} |->
        IF b = "lesion1" THEN OneHot(4) ELSE OneHot(5)]

ClassifyInit == HInit /\ CInit /\ weights = FixedWeights

ClassifyNext ==
    \E t \in Threads :
        \/ \E name \in Filenames, bytes \in Bytes : CArrive(t, name, bytes)
        \/ CStep(t)
        \/ CPredictFault(t)

SpecClassify == ClassifyInit /\ [][ClassifyNext]_vars

\* classification requests one after the other, for every artifact output
PredictInit ==
    /\ HInit
    /\ CInit
    /\ \E p \in Vectors : weights = [b \in Bytes \cup {NoFile} |-> p]

PredictNext ==
    \/ \E bytes \in Bytes : CArrive(1, "a.jpg", bytes)
    \/ CStep(1)

SpecPredict == PredictInit /\ [][PredictNext]_vars

----------------------------------------------------------------------------
(* Properties of /nearby_hospitals *)

Finite(x) == ToFloat(x).ok /\ ToFloat(x).fin
Unparseable(x) == ~ToFloat(x).ok

\* the provider answered with a list of objects whose only possible defect
\* is in the coordinates
WellFormedList ==
    /\ results.k = "list"
    /\ \A i \in 1..Len(results.items) :
          results.items[i].isdict /\ results.items[i].address.k # "str"

\* C1: when a candidate of the provider's list has a missing or unparseable
\* latitude or longitude, the lookup still answers "ok", that candidate is
\* in the hospital list with a null distance, and every candidate with valid
\* coordinates has a numeric distance.  (Stated for a usable origin, so that
\* only the candidates' own coordinates are in question.)
C1_BadCandidateIsolated ==
    (/\ hpc = "done"
     /\ WellFormedList
     /\ Finite(lat) /\ Finite(lng)
     /\ \E i \in 1..Len(results.items) :
           Unparseable(results.items[i].lat) \/ Unparseable(results.items[i].lon))
    => /\ hresp.status = "ok"
       /\ Len(hresp.hospitals) = Len(results.items)
       /\ \A i \in 1..Len(results.items) :
             LET r == results.items[i]
                 h == hresp.hospitals[i]
             IN  /\ h.lat = r.lat /\ h.lng = r.lon
                 /\ (Unparseable(r.lat) \/ Unparseable(r.lon)) => h.distance.null
                 /\ (Finite(r.lat) /\ Finite(r.lon)) => ~h.distance.null

\* C2: in an "ok" response, a hospital whose own latitude and longitude
\* parse (to finite numbers) never has a null distance, whatever the query
\* origin.
C2_NullOnlyForOwnCoordinates ==
    hresp.status = "ok" =>
        \A i \in 1..Len(hresp.hospitals) :
            LET h == hresp.hospitals[i]
            IN  h.distance.null => ~(Finite(h.lat) /\ Finite(h.lng))

\* the provider call itself failed: no decoded value was stored
CallFailed == results.k = "unset"

\* an element of the response that makes the loop body raise
ElementRaises(r) ==
    \/ ~r.isdict
    \/ r.lat.k = "absent"
    \/ r.lon.k = "absent"
    \/ r.address.k = "str"

\* the response has an unexpected shape or a candidate lacks a field of the
\* provider contract (lat, lon, display_name)
OffContract ==
    \/ results.k # "list"
    \/ \E i \in 1..Len(results.items) :
          \/ ElementRaises(results.items[i])
          \/ results.items[i].display_name.k = "absent"

Raises ==
    \/ CallFailed
    \/ results.k \notin {"list", "dict"}
    \/ \E i \in 1..Len(results.items) : ElementRaises(results.items[i])

C4_LookupCompletes == (hpc = "waiting") ~> (hpc = "done")

Float(v) == [k |-> "float", s |-> <<>>, v |-> v]

\* every distance computation had the reported coordinate as its origin
OriginIsReported ==
    \A i \in 1..Len(distCalls) :
        distCalls[i] = <<hresp.latitude_used, hresp.longitude_used>>

----------------------------------------------------------------------------
(* Properties of /uploaded *)

\* C5: the classifier artifact is loaded at most once in the process,
\* however many classification requests are served.
C5_LoadedAtMostOnce == loads <= 1

\* C9: while a request is between load_model and the end of its predict
\* call, no other request's K.clear_session() has reset the backend session
\* its model was built in.
C9_NoTeardownInFlight ==
    \A t \in Threads :
        cpc[t] \in {"read", "predict"} => model[t].session = session

\* C10: the image a request classifies is the one it uploaded.
C10_ClassifiesOwnUpload ==
    \A t \in Threads :
        cpc[t] \in {"predict", "select", "clear", "render"} =>
            img[t] = upload[t].bytes

\* C7: for every probability vector the model produces, the predicted class
\* is an index of the maximum entry, the lowest such index; the confidence
\* shown is the probability of that class (as a percentage, 2 decimals); the
\* label and the advisory record shown are those catalogued under that
\* class, which is one of 0..6.
C7_ArgmaxAndCatalogue ==
    \A t \in Threads :
        rendered[t].status = "ok" =>
            LET p == prediction[t]
                c == pred_class[t]
                page == rendered[t]
            IN  /\ p = weights[img[t]]
                /\ c \in Classes
                /\ c \in DOMAIN SKIN_CLASSES /\ c \in DOMAIN DISEASE_INFO
                /\ \A j \in Classes : p[j] <= p[c]
                /\ \A j \in Classes : j < c => p[j] < p[c]
                /\ 2 * (page.acc * ProbUnits - p[c] * 10000) <= ProbUnits
                /\ 2 * (p[c] * 10000 - page.acc * ProbUnits) <= ProbUnits
                /\ page.predictions = SKIN_CLASSES[c]
                /\ page.severity_level = DISEASE_INFO[c].severity
                /\ page.precautions = DISEASE_INFO[c].precautions
                /\ page.food_precautions = DISEASE_INFO[c].food_precautions
                /\ page.consultation = DISEASE_INFO[c].consultation

\* a page rendered for a vector whose maximum 1/3 is shared by classes 4, 5
\* and 6: class 4, "Melanoma", is shown with 33.33 percent
C7_Witness ==
    /\ rendered[1].status = "ok"
    /\ prediction[1][4] = prediction[1][5]
    /\ prediction[1][4] = prediction[1][6]
    /\ prediction[1][4] > 0
    /\ pred_class[1] = 4
    /\ rendered[1].predictions = "Melanoma"
    /\ rendered[1].acc = 3333
    /\ rendered[1].severity_level = "Very High (dangerous)"

====
